---- MODULE Spec2Model ----
(***************************************************************************)
(* A model of deep-deep's extraction spider                                *)
(* (deepdeep/spiders/extraction.py): the reward goal ExtractionGoal with   *)
(* its run-scoped ledger of extracted items and its per-response cache,    *)
(* the item export of ExtractionSpider, the run tagging of requests        *)
(* (set_run_id, _start_requests, _links_to_requests) and the run-aware     *)
(* duplicate filter.                                                       *)
(***************************************************************************)
EXTENDS Integers, Sequences, FiniteSets, TLC

(* ------------------------------ bounds -------------------------------- *)

\* responses handed to the goal in one behaviour
MaxPages == 2
\* (key, item) pairs one extractor call yields
MaxItems == 2
\* the largest n_copies a crawl is configured with
MaxCopies == 2
\* the seed urls one crawl starts from
MaxSeeds == 1
\* the Request objects one crawl makes
MaxRequests == 4
\* the links taken from one response
MaxLinks == 1
\* the item_callback invocations of one behaviour of the export
MaxCallbacks == 2
\* the calls of ExtractionSpider.parse of one behaviour
MaxParses == 2
\* the evaluations of get_reward that run at the same time
MaxEvaluations == 2
\* the scores passed to MaxScores.update are -MaxScore..MaxScore
MaxScore == 2
\* the sites profiles.main is left with after --offset and --limit
MaxSites == 4
\* the largest --max-workers given to profiles.main
MaxWorkers == 2

(* ------------------------- values of the program ---------------------- *)

\* ExtractionGoal.__init__: request_penalty: float=1.0
request_penalty == 1
\* ExtractionGoal.__init__: self.request_reward = -request_penalty
request_reward == 0 - request_penalty
\* ExtractionGoal.__init__: self.item_reward = 1.0
item_reward == 1

\* 'run-{}'.format(idx)
RunId(idx) == "run-" \o ToString(idx)
\* the value of a key a meta dict does not hold: meta.get(key) gives None,
\* meta[key] raises KeyError
None == "<None>"

\* the item keys an extractor can yield
Keys == {"a", "b"}
\* the payload of the i-th pair an extractor call yields: the goal never
\* looks into a payload, it only hands it on, so each position of a call
\* gets a payload of its own
Item(i) == "item-" \o ToString(i)

VARIABLES
    responses,        \* the responses delivered so far: id -> [url, run_id]
    extracted_items,  \* ExtractionGoal.extracted_items: set of (run_id, key)
    _cache,            \* ExtractionGoal._cache: response -> score
    export_items,     \* ExtractionSpider.export_items
    exported_keys,    \* ExtractionSpider.exported_keys
    export_buffer,    \* ExtractionSpider.export_buffer
    extractor_calls,  \* how often the extractor was invoked, per response
    first_reward,     \* the value the first returning get_reward gave, per response
    ret,              \* the last call of the goal and what it did
    n_copies,         \* ExtractionSpider.n_copies, the number of simultaneous runs
    baseline,         \* whether the spider is the AutopagerBaseline subclass
    requests,         \* the Request objects made so far: id -> Request
    metas,            \* the meta dicts of the requests: id -> dict
    status,           \* where each request is on its way through the crawler
    fingerprints,     \* RunAwareDupeFilter.fingerprints
    fetched,          \* the responses downloaded in the crawl: id -> [request, url]
    sent,             \* the last step of the crawl and what it did
    cb_calls,         \* the item_callback invocations made so far, in order
    appended,         \* the records appended to export_buffer so far, in order
    old_buffers,      \* the lists self.export_buffer was bound to before
    gens,             \* the generators the calls of ExtractionSpider.parse made
    emitted,          \* what each parse generator has yielded, in order
    workers,          \* the evaluations of get_reward that run concurrently
    default,          \* MaxScores.default
    scores,           \* MaxScores.scores
    best,             \* per key, the largest value passed to MaxScores.update
    got,              \* the last call on the MaxScores and what it returned
    args,             \* profiles.main: max_workers, dry_run, the number of sites
    main,             \* profiles.main: where it stands
    processes,        \* profiles.main: the dict processes, its keys in order
    popen,            \* the state of each crawl subprocess started
    started,          \* the sites a subprocess was started for, in order
    waited            \* the sites whose process a wait() has returned for

goal_vars == <<responses, extracted_items, _cache, export_items, exported_keys,
               export_buffer, extractor_calls, first_reward, ret>>

crawl_vars == <<n_copies, baseline, requests, metas, status, fingerprints,
                fetched, sent>>

export_vars == <<cb_calls, appended, old_buffers, gens, emitted>>

\* the variables neither the goal nor the crawl steps touch
scores_vars == <<default, scores, best, got>>

main_vars == <<args, main, processes, popen, started, waited>>

rest_vars == <<export_vars, workers, scores_vars, main_vars>>

vars == <<goal_vars, crawl_vars, rest_vars>>

(* --------------------------- ExtractionSpider ------------------------- *)

\* (a faulty variant of item_callback: the record buffered without the test on
\* exported_keys)
item_callback_without_test(sp, url, key, item) ==
    IF sp.export_items
    THEN [sp EXCEPT
            !.export_buffer = Append(@, [url |-> url, key |-> key, item |-> item]),
            !.exported_keys = @ \cup {key}]
    ELSE sp

\* ExtractionSpider.item_callback, on the spider's export state `sp`
item_callback(sp, url, key, item) ==
    IF sp.export_items /\ key \notin sp.exported_keys
    THEN [sp EXCEPT
            !.export_buffer = Append(@, [url |-> url, key |-> key, item |-> item]),
            !.exported_keys = @ \cup {key}]
    ELSE sp

(* ---------------------------- ExtractionGoal -------------------------- *)

\* (a faulty variant of full_key: the ledger keyed by the item key alone)
full_key_without_run(run_id, key) == <<None, key>>

\* full_key = (run_id, key)
full_key(run_id, key) == <<run_id, key>>

\* what the extractor can do for a response: yield the (key, item) pairs
\* `items`, and then either finish or raise (the pairs yielded before it
\* raised are lost: list(...) does not return)
ExtractorSeqs ==
    UNION {{[i \in 1..n |-> <<ks[i], Item(i)>>] : ks \in [1..n -> Keys]} :
             n \in 0..MaxItems}
ExtractorOutcomes ==
    [items : ExtractorSeqs, raised : BOOLEAN]

\* (a faulty variant of LoopBody: item_reward credited without the membership test)
LoopBodyNoTest(st, run_id, url, kv) ==
    [st EXCEPT !.extracted_items = @ \cup {full_key(run_id, kv[1])},
               !.score = @ + item_reward,
               !.sp = item_callback(@, url, kv[1], kv[2]),
               !.called = Append(@, <<url, kv[1], kv[2]>>)]

\* (a faulty variant of LoopBody: the key credited but not entered in the ledger)
LoopBodyNoAdd(st, run_id, url, kv) ==
    LET fk == full_key(run_id, kv[1])
    IN  [st EXCEPT !.score = IF fk \notin st.extracted_items
                             THEN @ + item_reward ELSE @,
                   !.sp = item_callback(@, url, kv[1], kv[2]),
                   !.called = Append(@, <<url, kv[1], kv[2]>>)]

\* one round of the loop `for key, item in items` of get_reward; `st` holds
\* the goal's ledger, the score, the spider's export state and the log of
\* item_callback invocations of this call
LoopBody(st, run_id, url, kv) ==
    LET fk == full_key(run_id, kv[1])
        new == fk \notin st.extracted_items
        s1 == IF new
              THEN [st EXCEPT !.extracted_items = @ \cup {fk},
                              !.score = @ + item_reward]
              ELSE st
        \* `if self.item_callback:` is a statement of the loop body, not of
        \* the `if full_key not in ...` block: it runs for every pair
        s2 == [s1 EXCEPT !.sp = item_callback(@, url, kv[1], kv[2]),
                         !.called = Append(@, <<url, kv[1], kv[2]>>)]
    IN s2

RECURSIVE Loop(_, _, _, _)
Loop(st, run_id, url, items) ==
    IF items = <<>> THEN st
    ELSE Loop(LoopBody(st, run_id, url, Head(items)), run_id, url, Tail(items))

\* the state get_reward starts the loop from: score = self.request_reward
LoopStart ==
    [extracted_items |-> extracted_items,
     score |-> request_reward,
     sp |-> [export_items |-> export_items, exported_keys |-> exported_keys,
             export_buffer |-> export_buffer],
     called |-> <<>>]

\* (a faulty variant of Extract: the pairs yielded before the extractor raised are
\* consumed, as if the loop ran over the generator inside the try block)
ExtractLazily(out, run_id, url) ==
    Loop(LoopStart, run_id, url, out.items)

\* lines 37-48: items = list(self.extractor(response)) in a try block;
\* except Exception: only traceback.print_exc(); else: the loop
Extract(out, run_id, url) ==
    IF out.raised THEN LoopStart
    ELSE Loop(LoopStart, run_id, url, out.items)

\* (a faulty variant of InCache: the cache never answers)
InCacheNever(p) == FALSE

\* `response not in self._cache`
InCache(p) == p \in DOMAIN _cache

\* (a faulty variant of HasRunId: a missing run_id silently defaulted, as with
\* response.meta.get('run_id'))
HasRunIdDefaulted(p) == TRUE

\* run_id = response.meta['run_id']: whether the key is there
HasRunId(p) == responses[p].run_id # None

\* the record of the last step: the operation, on which response, how it
\* ended ("return" or the exception it raised), the value returned, what the
\* extractor did and the item_callback invocations made
Ret(p, outcome, value, ext, called) ==
    [op |-> "get_reward", page |-> p, outcome |-> outcome, value |-> value,
     ext |-> ext, called |-> called]

NoExt == [items |-> <<>>, raised |-> FALSE, invoked |-> FALSE]

\* ExtractionGoal.get_reward(response), response = responses[p]
get_reward(p) ==
    /\ p \in DOMAIN responses
    /\ IF InCache(p)
       THEN \* return self._cache[response]
            /\ ret' = Ret(p, "return", _cache[p], NoExt, <<>>)
            /\ first_reward' = IF p \in DOMAIN first_reward THEN first_reward
                               ELSE first_reward @@ (p :> _cache[p])
            /\ UNCHANGED <<responses, extracted_items, _cache, export_items,
                           exported_keys, export_buffer, extractor_calls,
                           crawl_vars, rest_vars>>
       ELSE IF ~HasRunId(p)
       THEN \* run_id = response.meta['run_id'] raises KeyError
            /\ ret' = Ret(p, "KeyError", 0, NoExt, <<>>)
            /\ UNCHANGED <<responses, extracted_items, _cache, export_items,
                           exported_keys, export_buffer, extractor_calls,
                           first_reward, crawl_vars, rest_vars>>
       ELSE \E out \in ExtractorOutcomes :
            LET run_id == responses[p].run_id
                url == responses[p].url
                st == Extract(out, run_id, url)
            IN  /\ extractor_calls' =
                       [extractor_calls EXCEPT ![p] = @ + 1]
                /\ extracted_items' = st.extracted_items
                /\ exported_keys' = st.sp.exported_keys
                /\ export_buffer' = st.sp.export_buffer
                /\ _cache' = _cache @@ (p :> st.score)
                /\ first_reward' = IF p \in DOMAIN first_reward THEN first_reward
                                   ELSE first_reward @@ (p :> st.score)
                /\ ret' = Ret(p, "return", st.score,
                              [items |-> out.items, raised |-> out.raised,
                               invoked |-> TRUE],
                              st.called)
                /\ UNCHANGED <<responses, export_items, crawl_vars, rest_vars>>

\* ExtractionGoal.response_observed(response): pass
response_observed(p) ==
    /\ p \in DOMAIN responses
    /\ ret' = [op |-> "response_observed", page |-> p, outcome |-> "return",
               value |-> 0, ext |-> NoExt, called |-> <<>>]
    /\ UNCHANGED <<responses, extracted_items, _cache, export_items,
                   exported_keys, export_buffer, extractor_calls, first_reward,
                   crawl_vars, rest_vars>>

\* the responses that can reach the goal, one per url and run_id of the meta
\* of its request (None: the request was never tagged), in a fixed order
ResponseKinds ==
    <<[url |-> "u1", run_id |-> RunId(0)], [url |-> "u2", run_id |-> RunId(0)],
      [url |-> "u1", run_id |-> RunId(1)], [url |-> "u2", run_id |-> RunId(1)],
      [url |-> "u1", run_id |-> None]>>
KindOf(response) ==
    CHOOSE k \in DOMAIN ResponseKinds : ResponseKinds[k] = response

\* the crawler hands a new response to the goal. Delivering changes nothing
\* the goal reads and get_reward may be called on the delivered responses in
\* any order, so the responses are numbered in the order of ResponseKinds:
\* every multiset of responses and every order of calls is still reached
Deliver ==
    /\ Len(responses) < MaxPages
    /\ \E k \in DOMAIN ResponseKinds :
         /\ responses # <<>> => KindOf(responses[Len(responses)]) <= k
         /\ responses' = Append(responses, ResponseKinds[k])
         /\ extractor_calls' = Append(extractor_calls, 0)
    /\ ret' = [op |-> "Deliver", page |-> Len(responses) + 1,
               outcome |-> "return", value |-> 0, ext |-> NoExt,
               called |-> <<>>]
    /\ UNCHANGED <<extracted_items, _cache, export_items, exported_keys,
                   export_buffer, first_reward, crawl_vars, rest_vars>>

\* ExtractionGoal.__init__ and the export state of ExtractionSpider.__init__
GoalInit ==
    /\ responses = <<>>
    /\ extracted_items = {}
    /\ _cache = <<>>
    /\ export_items \in BOOLEAN
    /\ exported_keys = {}
    /\ export_buffer = <<>>
    /\ extractor_calls = <<>>
    /\ first_reward = <<>>
    /\ ret = [op |-> "init", page |-> 0, outcome |-> "return", value |-> 0,
              ext |-> NoExt, called |-> <<>>]

\* a crawl that has not started: no request made, nothing seen by the filter
CrawlIdle ==
    /\ baseline = FALSE
    /\ requests = <<>>
    /\ metas = <<>>
    /\ status = <<>>
    /\ fingerprints = {}
    /\ fetched = <<>>
    /\ sent = [op |-> "init", req |-> 0, seen |-> FALSE, tags |-> <<>>,
               copies |-> <<>>]

\* no parse generator made, no item_callback invoked yet
ExportIdle ==
    /\ cb_calls = <<>>
    /\ appended = <<>>
    /\ old_buffers = <<>>
    /\ gens = <<>>
    /\ emitted = <<>>

\* MaxScores(): default=0, nothing updated
ScoresIdle ==
    /\ default = 0
    /\ scores = <<>>
    /\ best = <<>>
    /\ got = [op |-> "init", key |-> None, num |-> 0, den |-> 1]

\* profiles.main not run
MainIdle ==
    /\ args = [max_workers |-> 1, dry_run |-> TRUE, n_sites |-> 0]
    /\ main = [pc |-> "idle", i |-> 1, todo |-> <<>>]
    /\ processes = <<>>
    /\ popen = <<>>
    /\ started = <<>>
    /\ waited = {}

RestIdle ==
    /\ ExportIdle
    /\ workers = <<>>
    /\ ScoresIdle
    /\ MainIdle

\* the goal on its own, handed the responses of two runs
Init ==
    /\ GoalInit
    /\ n_copies = MaxCopies
    /\ CrawlIdle
    /\ RestIdle

Next ==
    \/ Deliver
    \/ \E p \in DOMAIN responses : get_reward(p)
    \/ \E p \in DOMAIN responses : response_observed(p)

Spec == Init /\ [][Next]_vars

(* ------------------------------ the crawl ----------------------------- *)

\* the urls of the crawled site; "/a#top" is "/a" with a fragment
CrawlUrls == {"/a", "/a#top", "/b"}

\* RFPDupeFilter.request_fingerprint(request), called through super(): the
\* hash of the method, the canonical url (its fragment dropped) and the body
BaseFingerprint(url) ==
    IF url \in {"/a", "/a#top"} THEN "fa" ELSE "fb"

\* '{}'.format(v): the text of a meta value, 'None' for None
Str(v) == IF v = None THEN "None" ELSE v

\* the run-scoped meta keys: the list of set_run_id
RunKeys == {"run_id", "cookiejar", "scheduler_slot"}

\* a new Request for `url` as QSpider makes it, before any tagging: `extra`
\* stands for the meta QSpider itself puts in; depth, real_depth and
\* is_pagination are <<>> while the key is not in the dict
NewMeta(extra) ==
    [run_id |-> None, cookiejar |-> None, scheduler_slot |-> None,
     extra |-> extra, depth |-> <<>>, real_depth |-> <<>>,
     is_pagination |-> <<>>]

\* the heap `h` (requests and their meta dicts) with a new Request added
NewRequest(h, url, extra, via, parent) ==
    [h EXCEPT
       !.requests = Append(@, [url |-> url, priority |-> 0,
                               meta |-> Len(h.metas) + 1,
                               via |-> via, parent |-> parent]),
       !.metas = Append(@, NewMeta(extra))]

\* (a faulty variant of copy: the copy shares the meta dict of the original)
copy_sharing_meta(h, r) ==
    [h EXCEPT !.requests = Append(@, [h.requests[r] EXCEPT
                                         !.via = "copy", !.parent = r])]

\* orig_req.copy(): a new Request with the same fields, its meta a new dict
\* with the same items (via and parent only record where a request is from:
\* "seed" an orig_req, "copy" a copy of request `parent`, "link" a request
\* for a link of response `parent`)
copy(h, r) ==
    [h EXCEPT
       !.requests = Append(@, [h.requests[r] EXCEPT
                                  !.meta = Len(h.metas) + 1, !.via = "copy",
                                  !.parent = r]),
       !.metas = Append(@, h.metas[h.requests[r].meta])]

\* (a faulty variant of set_run_id: the scheduler_slot key left out)
set_run_id_without_slot(h, r, run_id) ==
    LET m == h.requests[r].meta
        after == [h.metas[m] EXCEPT !.run_id = run_id, !.cookiejar = run_id]
    IN  [h EXCEPT !.metas[m] = after,
                  !.tags = Append(@, [req |-> r, run_id |-> run_id,
                                      request |-> h.requests[r],
                                      before |-> h.metas[m], after |-> after])]

\* set_run_id(request, run_id); h.tags logs each application with the meta
\* before and after it
set_run_id(h, r, run_id) ==
    LET m == h.requests[r].meta
        after == [h.metas[m] EXCEPT !.run_id = run_id, !.cookiejar = run_id,
                                    !.scheduler_slot = run_id]
    IN  [h EXCEPT !.metas[m] = after,
                  !.tags = Append(@, [req |-> r, run_id |-> run_id,
                                      request |-> h.requests[r],
                                      before |-> h.metas[m], after |-> after])]

\* `yield req`
yield(h, r) == [h EXCEPT !.yielded = Append(@, r)]

\* the heap a handler starts from
Heap == [requests |-> requests, metas |-> metas, yielded |-> <<>>,
         tags |-> <<>>]

\* the loop `for idx in range(self.n_copies)` of _start_requests, from idx on
RECURSIVE CopyLoop(_, _, _)
CopyLoop(h, orig_req, idx) ==
    IF idx >= n_copies THEN h
    ELSE LET h1 == copy(h, orig_req)
             req == Len(h1.requests)
         IN  CopyLoop(yield(set_run_id(h1, req, RunId(idx)), req),
                      orig_req, idx + 1)

\* ExtractionSpider._start_requests(urls): QSpider._start_requests makes one
\* orig_req per url, with `extra` in its meta
RECURSIVE _start_requests(_, _, _)
_start_requests(h, urls, extra) ==
    IF urls = <<>> THEN h
    ELSE LET h1 == NewRequest(h, Head(urls), extra, "seed", 0)
         IN  _start_requests(CopyLoop(h1, Len(h1.requests), 0),
                             Tail(urls), extra)

\* the lists of seed urls of a crawl (seed_url, or the lines of seeds_url)
SeedLists ==
    UNION {{us \in [1..n -> CrawlUrls] : \A i, j \in 1..n : us[i] = us[j] => i = j} :
             n \in 1..MaxSeeds}

\* the status of the requests a handler made: yielded ones go on to the
\* scheduler, the others (orig_req) are dropped by the spider itself
StatusAfter(h) ==
    [r \in 1..Len(h.requests) |->
        IF r \in DOMAIN status THEN status[r]
        ELSE IF \E i \in DOMAIN h.yielded : h.yielded[i] = r THEN "yielded"
        ELSE "internal"]

\* the crawl starts: ExtractionSpider.start_requests
start_requests ==
    /\ requests = <<>>
    /\ \E urls \in SeedLists, extra \in {None, "seed-meta"} :
         LET h == _start_requests(Heap, urls, extra)
         IN  /\ Len(h.requests) <= MaxRequests
             /\ requests' = h.requests
             /\ metas' = h.metas
             /\ status' = StatusAfter(h)
             /\ sent' = [op |-> "start_requests", req |-> 0, seen |-> FALSE,
                         tags |-> h.tags, copies |-> h.yielded]
    /\ UNCHANGED <<n_copies, baseline, fingerprints, fetched, goal_vars, rest_vars>>

\* (a faulty variant of request_fingerprint: the run_id left out)
request_fingerprint_without_run(r) ==
    BaseFingerprint(requests[r].url)

\* RunAwareDupeFilter.request_fingerprint(request)
request_fingerprint(r) ==
    Str(metas[requests[r].meta].run_id) \o "-" \o BaseFingerprint(requests[r].url)

\* the scheduler offers a yielded request to the filter:
\* RFPDupeFilter.request_seen, which RunAwareDupeFilter inherits, answers
\* whether the fingerprint is in self.fingerprints and adds it if not
request_seen(r) ==
    /\ r \in DOMAIN requests /\ status[r] = "yielded"
    /\ LET fp == request_fingerprint(r)
       IN  IF fp \in fingerprints
           THEN /\ status' = [status EXCEPT ![r] = "duplicate"]
                /\ sent' = [op |-> "request_seen", req |-> r, seen |-> TRUE,
                            tags |-> <<>>, copies |-> <<>>]
                /\ UNCHANGED fingerprints
           ELSE /\ fingerprints' = fingerprints \cup {fp}
                /\ status' = [status EXCEPT ![r] = "scheduled"]
                /\ sent' = [op |-> "request_seen", req |-> r, seen |-> FALSE,
                            tags |-> <<>>, copies |-> <<>>]
    /\ UNCHANGED <<n_copies, baseline, requests, metas, fetched, goal_vars, rest_vars>>

\* the downloader answers a scheduled request: the response keeps the
\* request (response.request, response.meta is its meta) and its url
download(r) ==
    /\ r \in DOMAIN requests /\ status[r] = "scheduled"
    /\ status' = [status EXCEPT ![r] = "downloaded"]
    /\ fetched' = Append(fetched, [request |-> r, url |-> requests[r].url,
                                  parsed |-> FALSE])
    /\ sent' = [op |-> "download", req |-> r, seen |-> FALSE, tags |-> <<>>,
                copies |-> <<>>]
    /\ UNCHANGED <<n_copies, baseline, requests, metas, fingerprints,
                   goal_vars, rest_vars>>

\* (a faulty variant of ExtractionSpider_links_to_requests: the requests of
\* the links yielded as QSpider made them)
RECURSIVE ExtractionSpider_links_untagged(_, _, _)
ExtractionSpider_links_untagged(h, f, links) ==
    IF links = <<>> THEN h
    ELSE LET h1 == NewRequest(h, Head(links), "link-meta", "link", f)
         IN  ExtractionSpider_links_untagged(
                 yield(h1, Len(h1.requests)), f, Tail(links))

\* ExtractionSpider._links_to_requests(response) for response fetched[f]:
\* QSpider._links_to_requests makes one request per link, each is tagged
\* with the run_id of response.request.meta and yielded
RECURSIVE ExtractionSpider_links_to_requests(_, _, _)
ExtractionSpider_links_to_requests(h, f, links) ==
    IF links = <<>> THEN h
    ELSE LET run_id == h.metas[h.requests[fetched[f].request].meta].run_id
             h1 == NewRequest(h, Head(links), "link-meta", "link", f)
             req == Len(h1.requests)
         IN  ExtractionSpider_links_to_requests(
                 yield(set_run_id(h1, req, run_id), req), f, Tail(links))

\* response.meta.get(key, 1) for depth and real_depth
GetOr1(v) == IF v = <<>> THEN 1 ELSE v[1]

\* the body of the loop of AutopagerBaseline._links_to_requests for req
AutopagerBody(h, req, depth, real_depth, pagination_urls) ==
    LET m == h.requests[req].meta
        is_pagination == h.requests[req].url \in pagination_urls
        d == depth + (IF is_pagination THEN 0 ELSE 1)
    IN  [h EXCEPT !.metas[m].depth = <<d>>,
                  !.metas[m].real_depth = <<real_depth + 1>>,
                  !.metas[m].is_pagination = <<is_pagination>>,
                  !.requests[req].priority = (0 - 100) * d]

RECURSIVE AutopagerLoop(_, _, _, _, _)
AutopagerLoop(h, reqs, depth, real_depth, pagination_urls) ==
    IF reqs = <<>> THEN h
    ELSE AutopagerLoop(
             AutopagerBody(h, Head(reqs), depth, real_depth, pagination_urls),
             Tail(reqs), depth, real_depth, pagination_urls)

\* AutopagerBaseline._links_to_requests(response): the requests of
\* super()._links_to_requests, each given depth, real_depth, is_pagination
\* and its priority before it is yielded; pagination_urls is what
\* self.autopager.urls(response) gave
AutopagerBaseline_links_to_requests(h, f, links, pagination_urls) ==
    LET meta == h.metas[h.requests[fetched[f].request].meta]
        h1 == ExtractionSpider_links_to_requests(h, f, links)
    IN  AutopagerLoop(h1, h1.yielded, GetOr1(meta.depth),
                      GetOr1(meta.real_depth), pagination_urls)

\* the links of a response, and the urls autopager takes for pagination
LinkLists == UNION {[1..n -> CrawlUrls] : n \in 0..MaxLinks}

\* the spider parses response fetched[f]: its _links_to_requests
links_to_requests(f) ==
    /\ f \in DOMAIN fetched /\ ~fetched[f].parsed
    /\ \E links \in LinkLists, pagination_urls \in SUBSET {"/a", "/b"} :
         LET h == IF baseline
                  THEN AutopagerBaseline_links_to_requests(
                           Heap, f, links, pagination_urls)
                  ELSE ExtractionSpider_links_to_requests(Heap, f, links)
         IN  /\ baseline \/ pagination_urls = {}
             /\ Len(h.requests) <= MaxRequests
             /\ requests' = h.requests
             /\ metas' = h.metas
             /\ status' = StatusAfter(h)
             /\ fetched' = [fetched EXCEPT ![f].parsed = TRUE]
             /\ sent' = [op |-> "links_to_requests", req |-> fetched[f].request,
                         seen |-> FALSE, tags |-> h.tags, copies |-> h.yielded]
    /\ UNCHANGED <<n_copies, baseline, fingerprints, goal_vars, rest_vars>>

\* ExtractionSpider.__init__ (or AutopagerBaseline.__init__) with n_copies
\* from the spider arguments, and the goal of get_goal
CrawlInit ==
    /\ GoalInit
    /\ export_items = TRUE
    /\ n_copies \in 1..MaxCopies
    /\ baseline \in BOOLEAN
    /\ requests = <<>>
    /\ metas = <<>>
    /\ status = <<>>
    /\ fingerprints = {}
    /\ fetched = <<>>
    /\ sent = [op |-> "init", req |-> 0, seen |-> FALSE, tags |-> <<>>,
               copies |-> <<>>]
    /\ RestIdle

CrawlNext ==
    \/ start_requests
    \/ \E r \in DOMAIN requests : request_seen(r)
    \/ \E r \in DOMAIN requests : download(r)
    \/ \E f \in DOMAIN fetched : links_to_requests(f)

SpecCrawl == CrawlInit /\ [][CrawlNext]_vars

(* ------------------------ claims: ExtractionGoal ---------------------- *)

\* the keys of a sequence of (key, item) pairs
KeysOf(items) == {items[i][1] : i \in DOMAIN items}

\* a step that is a call of get_reward on response p (ret describes the last
\* step, and every other operation sets ret.op to its own name)
IsCall(p) == ret'.op = "get_reward" /\ ret'.page = p

\* a step that is the first evaluation of response p: the extractor ran
IsFirstEvaluation(p) == IsCall(p) /\ extractor_calls'[p] # extractor_calls[p]

\* C1: once the first get_reward(P) has returned, every later get_reward(P)
\* returns that same value, whatever calls on other responses changed the
\* ledger in between and whatever the extractor would return now; the
\* extractor has been invoked for P exactly once, and the repeated call adds
\* no ledger entry and invokes no item callback.
C1_RewardMemoized ==
    [][\A p \in DOMAIN first_reward :
          IsCall(p) =>
             /\ ret'.outcome = "return"
             /\ ret'.value = first_reward[p]
             /\ extractor_calls[p] = 1 /\ extractor_calls'[p] = 1
             /\ extracted_items' = extracted_items
             /\ ret'.called = <<>>
             /\ UNCHANGED <<exported_keys, export_buffer>>]_vars

\* C1 witness: a repeated call on a response whose first reward was computed
\* before another response of the same run was credited for a new key.
C1_Witness ==
    /\ ret.op = "get_reward" /\ ret.page \in DOMAIN first_reward
    /\ ~ret.ext.invoked
    /\ ret.value = request_reward
    /\ \E q \in DOMAIN _cache :
          /\ q # ret.page
          /\ responses[q].run_id = responses[ret.page].run_id
          /\ _cache[q] > request_reward

\* C2: when a response of run R2 is first evaluated and its extraction holds
\* keys that are in the ledger under another run R1 but not under R2, every
\* such key is credited item_reward to the response and entered under R2:
\* the entries of R1 do not count against R2.
C2_RunIsolation ==
    [][\A p \in DOMAIN responses :
          (IsFirstEvaluation(p) /\ ~ret'.ext.raised) =>
             LET R2 == responses[p].run_id
                 shared == {k \in KeysOf(ret'.ext.items) :
                              /\ <<R2, k>> \notin extracted_items
                              /\ \E e \in extracted_items :
                                    e[2] = k /\ e[1] # R2}
             IN  /\ ret'.value >= request_reward + item_reward * Cardinality(shared)
                 /\ \A k \in shared : <<R2, k>> \in extracted_items'
                 /\ \A e \in extracted_items' \ extracted_items : e[1] = R2]_vars

\* C2 witness: a response of one run has just been credited for a key that
\* the ledger holds under another run.
C2_Witness ==
    /\ ret.op = "get_reward" /\ ret.ext.invoked /\ ~ret.ext.raised
    /\ ret.value >= request_reward + item_reward
    /\ \E k \in KeysOf(ret.ext.items) :
          /\ <<responses[ret.page].run_id, k>> \in extracted_items
          /\ \E e \in extracted_items :
                e[2] = k /\ e[1] # responses[ret.page].run_id

\* C3: when a response of run R is first evaluated, a key of its extraction
\* that an earlier response of R entered in the ledger is credited 0 while
\* request_reward is still charged: the reward is request_reward plus
\* item_reward for each of its keys not yet in the ledger under R, and those
\* keys are entered under R (the first response evaluated wins the credit).
C3_FirstPageWins ==
    [][\A p \in DOMAIN responses :
          (IsFirstEvaluation(p) /\ ~ret'.ext.raised) =>
             LET R == responses[p].run_id
                 seen == {k \in KeysOf(ret'.ext.items) :
                            <<R, k>> \in extracted_items}
                 fresh == KeysOf(ret'.ext.items) \ seen
             IN  seen # {} =>
                   /\ ret'.value = request_reward + item_reward * Cardinality(fresh)
                   /\ _cache'[p] = ret'.value
                   /\ \A k \in fresh : <<R, k>> \in extracted_items'
                   /\ \A k \in seen : <<R, k>> \in extracted_items']_vars

\* C3 witness: a second response of a run extracted only a key that the
\* first response of the run had been credited for, and got request_reward.
C3_Witness ==
    /\ ret.op = "get_reward" /\ ret.ext.invoked /\ ~ret.ext.raised
    /\ ret.ext.items # <<>>
    /\ ret.value = request_reward
    /\ \E q \in DOMAIN _cache :
          /\ q # ret.page
          /\ responses[q].run_id = responses[ret.page].run_id
          /\ _cache[q] = request_reward + item_reward

\* C5: when the extractor raises for a run-tagged response, also after it
\* has yielded pairs, get_reward returns exactly request_reward, stores that
\* value in the cache and leaves the ledger (and the export state) unchanged.
C5_ExtractorFailure ==
    [][\A p \in DOMAIN responses :
          (IsFirstEvaluation(p) /\ ret'.ext.raised) =>
             /\ ret'.outcome = "return"
             /\ ret'.value = request_reward
             /\ p \in DOMAIN _cache' /\ _cache'[p] = request_reward
             /\ extracted_items' = extracted_items
             /\ ret'.called = <<>>
             /\ UNCHANGED <<exported_keys, export_buffer>>]_vars

\* C5 witness: the extractor raised after yielding a pair for a key that is
\* not in the ledger, and the call returned request_reward.
C5_Witness ==
    /\ ret.op = "get_reward" /\ ret.ext.invoked /\ ret.ext.raised
    /\ ret.ext.items # <<>>
    /\ ret.outcome = "return" /\ ret.value = request_reward
    /\ ret.page \in DOMAIN _cache
    /\ \A k \in KeysOf(ret.ext.items) :
          <<responses[ret.page].run_id, k>> \notin extracted_items

\* C6 (as claimed): the item callback is invoked only for an item not yet
\* seen by the response's run, so at most once per (run_id, key): every
\* invocation of a call is for a key that was not in the ledger under the
\* run before the call, and no two invocations of a call share a key.
C6_CallbackOnlyFirstSeen ==
    [][\A p \in DOMAIN responses :
          IsCall(p) =>
             /\ \A i \in DOMAIN ret'.called :
                   <<responses[p].run_id, ret'.called[i][2]>> \notin extracted_items
             /\ \A i, j \in DOMAIN ret'.called :
                   ret'.called[i][2] = ret'.called[j][2] => i = j]_vars

\* C7: get_reward on a response whose meta has no run_id raises KeyError:
\* no reward is returned, the extractor is not invoked, no cache entry is
\* stored for the response and the ledger is unchanged.
C7_MissingRunIdFails ==
    [][\A p \in DOMAIN responses :
          (IsCall(p) /\ responses[p].run_id = None) =>
             /\ ret'.outcome = "KeyError"
             /\ extractor_calls' = extractor_calls /\ extractor_calls'[p] = 0
             /\ p \notin DOMAIN _cache'
             /\ \A e \in extracted_items' : e[1] # None
             /\ UNCHANGED <<extracted_items, _cache, exported_keys,
                            export_buffer>>]_vars

\* C7 witness: get_reward has raised KeyError for an untagged response while
\* the ledger and the cache hold entries of tagged ones.
C7_Witness ==
    /\ ret.op = "get_reward" /\ ret.outcome = "KeyError"
    /\ responses[ret.page].run_id = None
    /\ extracted_items # {} /\ DOMAIN _cache # {}

\* the runs of the responses handed to the goal
Runs == {RunId(0), RunId(1)}

\* the responses of run R that get_reward has rewarded (memoized)
RewardedPages(R) == {p \in DOMAIN _cache : responses[p].run_id = R}

\* the sum of the rewards memoized for the responses in `pages`
RECURSIVE SumOfRewards(_)
SumOfRewards(pages) ==
    IF pages = {} THEN 0
    ELSE LET p == CHOOSE q \in pages : TRUE
         IN  _cache[p] + SumOfRewards(pages \ {p})

\* C13: for every run R, in every reachable state (so after the calls of
\* get_reward in any order), the sum of the rewards memoized for the
\* responses of R is at most (number of keys in the ledger under R) *
\* item_reward - (number of rewarded responses of R) * |request_reward|.
C13_TotalRewardBounded ==
    \A R \in Runs :
       SumOfRewards(RewardedPages(R)) <=
          Cardinality({e \in extracted_items : e[1] = R}) * item_reward
          - Cardinality(RewardedPages(R)) * request_penalty

\* C13 witness: two responses of one run are rewarded, both extracted the
\* same key, and the later one found it in the ledger.
C13_Witness ==
    \E R \in Runs :
       /\ Cardinality(RewardedPages(R)) = 2
       /\ Cardinality({e \in extracted_items : e[1] = R}) = 1
       /\ SumOfRewards(RewardedPages(R)) = item_reward - 2 * request_penalty
       /\ ret.op = "get_reward" /\ ret.ext.invoked /\ ret.ext.items # <<>>
       /\ ~ret.ext.raised /\ ret.value = request_reward

\* C14: the ledger only grows. Across every step (get_reward whether it
\* answers from the cache, fails on the run_id, sees the extractor fail or
\* runs the loop; response_observed; the delivery of a response) no entry
\* is removed, and every entry added is (run_id of the response the step
\* processed, a key of that response's extraction).
C14_LedgerOnlyGrows ==
    [][/\ extracted_items \subseteq extracted_items'
       /\ \A e \in extracted_items' \ extracted_items :
             /\ ret'.op = "get_reward" /\ ret'.ext.invoked
             /\ e[1] = responses[ret'.page].run_id
             /\ e[1] \in Runs
             /\ e[2] \in KeysOf(ret'.ext.items)]_vars

\* C14 witness: the last step, a get_reward on a response of one run, has
\* added an entry to a ledger that held an entry of the other run, and both
\* are there.
C14_Witness ==
    /\ ret.op = "get_reward" /\ ret.ext.invoked /\ ~ret.ext.raised
    /\ \E e \in extracted_items :
          e[1] = responses[ret.page].run_id /\ e[2] \in KeysOf(ret.ext.items)
    /\ \E e \in extracted_items : e[1] # responses[ret.page].run_id
    /\ ret.value > request_reward

\* C17: on the first evaluation of a run-tagged response whose extraction
\* succeeds, get_reward returns request_reward + item_reward * (number of
\* distinct keys of the extraction not in the ledger under the response's
\* run), whether or not a key occurs several times, and the ledger after the
\* call is the ledger before it plus exactly those keys under that run.
C17_FirstEvaluationReward ==
    [][\A p \in DOMAIN responses :
          (IsFirstEvaluation(p) /\ ~ret'.ext.raised) =>
             LET R == responses[p].run_id
                 credited == {k \in KeysOf(ret'.ext.items) :
                                <<R, k>> \notin extracted_items}
             IN  /\ ret'.outcome = "return"
                 /\ ret'.value =
                       request_reward + item_reward * Cardinality(credited)
                 /\ extracted_items' =
                       extracted_items \cup {<<R, k>> : k \in credited}]_vars

\* C17 witness: a first evaluation whose extraction yielded the same new key
\* twice has returned request_reward + item_reward.
C17_Witness ==
    /\ ret.op = "get_reward" /\ ret.ext.invoked /\ ~ret.ext.raised
    /\ Len(ret.ext.items) = 2 /\ Cardinality(KeysOf(ret.ext.items)) = 1
    /\ ret.value = request_reward + item_reward
    /\ ret.page \notin DOMAIN first_reward \/ first_reward[ret.page] = ret.value


\* the state get_reward reads and writes besides the cache: the goal's
\* ledger and, through item_callback, the spider's export state
GoalState ==
    [extracted_items |-> extracted_items,
     sp |-> [export_items |-> export_items, exported_keys |-> exported_keys,
             export_buffer |-> export_buffer]]

\* get_reward on the uncached run-tagged response p, started from the state
\* gs, the extractor doing `out`: the state it leaves and the reward
Evaluate(gs, p, out) ==
    LET st0 == [extracted_items |-> gs.extracted_items,
                score |-> request_reward, sp |-> gs.sp, called |-> <<>>]
        st == IF out.raised THEN st0
              ELSE Loop(st0, responses[p].run_id, responses[p].url, out.items)
    IN  [gs |-> [extracted_items |-> st.extracted_items, sp |-> st.sp],
         reward |-> st.score]

\* the state the step has left
GoalStateAfter ==
    [extracted_items |-> extracted_items',
     sp |-> [export_items |-> export_items', exported_keys |-> exported_keys',
             export_buffer |-> export_buffer']]

\* the two orders of evaluating p2 and p1 (the extractor doing out1 for p1)
\* from the state before the step, which has evaluated p2 first, the
\* extractor doing out2: p2 then p1 (rewards r2, r1) and p1 then p2 (rewards
\* s1, s2)
TwoOrders(p1, out1, p2, out2) ==
    LET ab == Evaluate(GoalStateAfter, p1, out1)
        b == Evaluate(GoalState, p1, out1)
        ba == Evaluate(b.gs, p2, out2)
    IN  [r2 |-> ret'.value, r1 |-> ab.reward, end21 |-> ab.gs,
         s1 |-> b.reward, s2 |-> ba.reward, end12 |-> ba.gs]

\* what the extractor did in the step
StepOutcome == [items |-> ret'.ext.items, raised |-> ret'.ext.raised]

\* what the extractor can do for the page still to be evaluated: the pairs
\* yielded before a raise are lost, so one raising outcome stands for all
PendingOutcomes ==
    {out \in ExtractorOutcomes : out.raised => out.items = <<>>}

\* the responses of another run than p's that get_reward has yet to
\* evaluate. The step of either page of a pair is taken from every state, so
\* a pair is looked at from the step of its page delivered first
OtherRunPending(p) ==
    {q \in DOMAIN responses :
        /\ q > p
        /\ q \notin DOMAIN _cache' /\ responses[q].run_id # None
        /\ responses[q].run_id # responses[p].run_id}

\* the records of an export buffer, whatever their order
BufferRecords(buffer) == {buffer[i] : i \in DOMAIN buffer}

\* the keys of the records of an export buffer
BufferKeys(buffer) == {buffer[i].key : i \in DOMAIN buffer}

MetaOf(r) == metas[requests[r].meta]
RunOf(r) == MetaOf(r).run_id

\* the requests the filter has been offered
Offered == {r \in DOMAIN requests :
              status[r] \in {"scheduled", "downloaded", "duplicate"}}

\* C4: a request offered to RunAwareDupeFilter is treated as a duplicate
\* exactly when an earlier offered request has the same base fingerprint
\* and the same run_id: a request of another run with the same base
\* fingerprint never makes it a duplicate and never changes the answer.
C4_DuplicatesPerRun ==
    [][\A r \in DOMAIN requests :
          (sent'.op = "request_seen" /\ sent'.req = r /\ status[r] = "yielded") =>
             /\ sent'.seen <=>
                   \E r0 \in Offered :
                      /\ BaseFingerprint(requests[r0].url) =
                            BaseFingerprint(requests[r].url)
                      /\ RunOf(r0) = RunOf(r)
             /\ status'[r] = IF sent'.seen THEN "duplicate" ELSE "scheduled"]_vars

\* C4 witness: a request was taken as new although a request of another run
\* with the same base fingerprint had been offered, and a request repeating
\* the base fingerprint and run_id of an earlier one was dropped.
C4_Witness ==
    /\ sent.op = "request_seen" /\ ~sent.seen
    /\ \E r0 \in Offered :
          /\ r0 # sent.req
          /\ BaseFingerprint(requests[r0].url) =
                BaseFingerprint(requests[sent.req].url)
          /\ RunOf(r0) # RunOf(sent.req)
    /\ \E r1 \in DOMAIN requests : status[r1] = "duplicate"

\* the request whose response the link request r was taken from, and the
\* seed copy its chain of responses starts from
ParentRequest(r) == fetched[requests[r].parent].request
RECURSIVE Root(_)
Root(r) == IF requests[r].via = "link" THEN Root(ParentRequest(r)) ELSE r

\* C8: every request made by _links_to_requests, of ExtractionSpider or of
\* AutopagerBaseline, carries the run_id of the request of its parent
\* response, hence the run_id run-i of the seed copy it descends from.
C8_RunIdPropagates ==
    \A r \in DOMAIN requests :
       requests[r].via = "link" =>
          /\ RunOf(r) = RunOf(ParentRequest(r))
          /\ requests[Root(r)].via = "copy"
          /\ RunOf(r) = RunOf(Root(r))
          /\ \E idx \in 0..(n_copies - 1) : RunOf(r) = RunId(idx)

\* C8 witness: AutopagerBaseline made a request for a link of a response of
\* run-1, and set its depth.
C8_Witness ==
    /\ baseline
    /\ \E r \in DOMAIN requests :
          /\ requests[r].via = "link"
          /\ RunOf(r) = RunId(1)
          /\ MetaOf(r).depth # <<>>

\* C9: _start_requests yields, for each seed request, exactly n_copies
\* copies; the copy of index idx has run id RunId(idx) in its run-scoped
\* keys, the run ids are pairwise distinct, each copy equals the seed request
\* in every other field, and the seed request and the other copies keep
\* their own run-scoped fields.
C9_SeedCopies ==
    sent.op = "start_requests" =>
       LET seeds == {o \in DOMAIN requests : requests[o].via = "seed"}
       IN  /\ Len(sent.copies) = n_copies * Cardinality(seeds)
           /\ \A i, j \in DOMAIN sent.copies :
                 sent.copies[i] = sent.copies[j] => i = j
           /\ \A o \in seeds :
                 /\ \A k \in RunKeys : MetaOf(o)[k] = None
                 /\ \A idx \in 0..(n_copies - 1) :
                       \E i \in DOMAIN sent.copies :
                          LET c == sent.copies[i]
                          IN  /\ requests[c].via = "copy"
                              /\ requests[c].parent = o
                              /\ c = o + 1 + idx
                              /\ requests[c].url = requests[o].url
                              /\ requests[c].priority = requests[o].priority
                              /\ MetaOf(c) =
                                    [MetaOf(o) EXCEPT
                                        !.run_id = RunId(idx),
                                        !.cookiejar = RunId(idx),
                                        !.scheduler_slot = RunId(idx)]
           /\ \A i, j \in DOMAIN sent.copies :
                 i # j /\ requests[sent.copies[i]].parent =
                             requests[sent.copies[j]].parent
                    => RunOf(sent.copies[i]) # RunOf(sent.copies[j])

\* C9 witness: a seed request with meta of its own was copied n_copies > 1
\* times.
C9_Witness ==
    /\ sent.op = "start_requests" /\ n_copies > 1
    /\ Len(sent.copies) = n_copies
    /\ \E o \in DOMAIN requests :
          requests[o].via = "seed" /\ MetaOf(o).extra = "seed-meta"

\* C10: every application of set_run_id sets run_id, cookiejar and
\* scheduler_slot of the request's meta to the run id given and changes
\* nothing else of the meta; and every request the spider has yielded has
\* run_id = cookiejar = scheduler_slot, a run id.
C10_SetRunId ==
    /\ \A i \in DOMAIN sent.tags :
          LET t == sent.tags[i]
          IN  /\ t.run_id # None
              /\ t.after = [t.before EXCEPT !.run_id = t.run_id,
                                            !.cookiejar = t.run_id,
                                            !.scheduler_slot = t.run_id]
              /\ requests[t.req].url = t.request.url
              /\ requests[t.req].meta = t.request.meta
              /\ \A k \in RunKeys : MetaOf(t.req)[k] = t.run_id
    /\ \A r \in DOMAIN requests :
          status[r] # "internal" =>
             /\ RunOf(r) # None
             /\ MetaOf(r).cookiejar = RunOf(r)
             /\ MetaOf(r).scheduler_slot = RunOf(r)

\* C10 witness: set_run_id tagged the request of a link that came with meta
\* of its own, under AutopagerBaseline.
C10_Witness ==
    /\ sent.op = "links_to_requests" /\ baseline
    /\ \E i \in DOMAIN sent.tags :
          /\ sent.tags[i].before.extra = "link-meta"
          /\ sent.tags[i].before.run_id = None
          /\ sent.tags[i].run_id = RunId(1)

(* ------------------- ExtractionSpider: the item export ---------------- *)

\* the urls and items item_callback is invoked with
ExportUrls == {"u1", "u2"}
ExportItems == {Item(1)}

\* the spider's export state
SpiderState ==
    [export_items |-> export_items, exported_keys |-> exported_keys,
     export_buffer |-> export_buffer]

\* the goal invokes self.item_callback(response.url, key, item) (line 48)
invoke_item_callback(url, key, item) ==
    /\ Len(cb_calls) < MaxCallbacks
    /\ LET sp == item_callback(SpiderState, url, key, item)
       IN  /\ exported_keys' = sp.exported_keys
           /\ export_buffer' = sp.export_buffer
           /\ appended' = appended \o
                 SubSeq(sp.export_buffer, Len(export_buffer) + 1,
                        Len(sp.export_buffer))
    /\ cb_calls' = Append(cb_calls, [url |-> url, key |-> key, item |-> item])
    /\ UNCHANGED <<responses, extracted_items, _cache, export_items,
                   extractor_calls, first_reward, ret, crawl_vars,
                   old_buffers, gens, emitted, workers, scores_vars, main_vars>>

\* what the parent's parse (QSpider.parse) yields for a response
ParseResults == <<<<>>, <<"item">>, <<"item", "Request">>>>

\* the parse result a generator was made for
ResultOf(gen) == gen.result

\* parse(response) is called: a generator is made, none of its code has run.
\* Making a generator changes nothing the others read, so the generators are
\* numbered in the order of ParseResults: every multiset of calls and every
\* order of resuming them is still reached
parse(k) ==
    /\ Len(gens) < MaxParses
    /\ k \in DOMAIN ParseResults
    /\ gens # <<>> => ResultOf(gens[Len(gens)]) <= k
    /\ gens' = Append(gens, [pc |-> "created", list |-> 0, idx |-> 1,
                             rest |-> ParseResults[k], result |-> k])
    /\ emitted' = Append(emitted, <<>>)
    /\ UNCHANGED <<goal_vars, crawl_vars, cb_calls, appended, old_buffers,
                   workers, scores_vars, main_vars>>

\* the list object a generator's `yield from self.export_buffer` iterates:
\* the list self.export_buffer is bound to now (0), or one it was bound to
ListOf(gen) ==
    IF gen.list = 0 THEN export_buffer ELSE old_buffers[gen.list]

\* whether an element of the parent's parse result is a Request
isinstance_Request(item_or_link) == item_or_link = "Request"

\* lines 114-116: the loop over parse_result runs to its next
\* `yield item_or_link` (out = the Request) or to its end (out = <<>>)
RECURSIVE Forward(_)
Forward(rest) ==
    IF rest = <<>> THEN [out |-> <<>>, rest |-> <<>>]
    ELSE IF isinstance_Request(Head(rest))
         THEN [out |-> <<Head(rest)>>, rest |-> Tail(rest)]
         ELSE Forward(Tail(rest))

\* what a generator yields: a buffered record or an element of parse_result
Yielded(kind, what) == [kind |-> kind, what |-> what]

\* the generator g yields y
Yield(g, y) == emitted' = [emitted EXCEPT ![g] = Append(@, y)]

\* next() on the generator g of parse: its code runs to the next yield or to
\* the end. `self.export_buffer = []` binds the attribute to a new list; the
\* generators that are iterating the old list keep it
parse_next(g) ==
    /\ g \in DOMAIN gens /\ gens[g].pc # "done"
    /\ LET gen == gens[g]
           flushing == \/ gen.pc = "flushing"
                       \/ gen.pc = "created" /\ export_items
           passing == \/ gen.pc = "passing"
                      \/ gen.pc = "created" /\ ~export_items
       IN  IF flushing /\ gen.idx <= Len(ListOf(gen))
           THEN \* yield from self.export_buffer: the next record
                /\ gens' = [gens EXCEPT ![g].pc = "flushing", ![g].idx = @ + 1]
                /\ Yield(g, Yielded("record", ListOf(gen)[gen.idx]))
                /\ UNCHANGED <<export_buffer, old_buffers>>
           ELSE IF flushing
           THEN \* the list is exhausted: self.export_buffer = [], then the
                \* loop over parse_result
                LET kept == \E h \in DOMAIN gens :
                               /\ h # g /\ gens[h].pc = "flushing"
                               /\ gens[h].list = 0
                    f == Forward(gen.rest)
                IN  /\ export_buffer' = <<>>
                    /\ old_buffers' = IF kept
                                      THEN Append(old_buffers, export_buffer)
                                      ELSE old_buffers
                    /\ gens' = [h \in DOMAIN gens |->
                                  IF h = g
                                  THEN [gen EXCEPT
                                          !.pc = IF f.out = <<>> THEN "done"
                                                 ELSE "forwarding",
                                          !.list = 0, !.idx = 1,
                                          !.rest = f.rest]
                                  ELSE IF gens[h].pc = "flushing"
                                          /\ gens[h].list = 0
                                  THEN [gens[h] EXCEPT
                                          !.list = Len(old_buffers) + 1]
                                  ELSE gens[h]]
                    /\ IF f.out = <<>> THEN emitted' = emitted
                       ELSE Yield(g, Yielded(f.out[1], f.out[1]))
           ELSE IF passing
           THEN \* else: yield from parse_result
                /\ gens' = [gens EXCEPT
                              ![g].pc = IF gen.rest = <<>> THEN "done"
                                        ELSE "passing",
                              ![g].rest = IF gen.rest = <<>> THEN <<>>
                                          ELSE Tail(@)]
                /\ IF gen.rest = <<>> THEN emitted' = emitted
                   ELSE Yield(g, Yielded(Head(gen.rest), Head(gen.rest)))
                /\ UNCHANGED <<export_buffer, old_buffers>>
           ELSE \* the loop over parse_result goes on
                LET f == Forward(gen.rest)
                IN  /\ gens' = [gens EXCEPT
                                  ![g].pc = IF f.out = <<>> THEN "done"
                                            ELSE "forwarding",
                                  ![g].rest = f.rest]
                    /\ IF f.out = <<>> THEN emitted' = emitted
                       ELSE Yield(g, Yielded(f.out[1], f.out[1]))
                    /\ UNCHANGED <<export_buffer, old_buffers>>
    /\ UNCHANGED <<responses, extracted_items, _cache, export_items,
                   exported_keys, extractor_calls, first_reward, ret,
                   crawl_vars, cb_calls, appended, workers,
                   scores_vars, main_vars>>

\* the spider after __init__, export_items set either way
ExportInit ==
    /\ GoalInit
    /\ n_copies = 1
    /\ CrawlIdle
    /\ RestIdle

ExportNext ==
    \/ \E url \in ExportUrls : \E key \in Keys : \E item \in ExportItems :
          invoke_item_callback(url, key, item)
    \/ \E k \in DOMAIN ParseResults : parse(k)
    \/ \E g \in DOMAIN gens : parse_next(g)

SpecExport == ExportInit /\ [][ExportNext]_vars

(* ---------------------------- claims: export -------------------------- *)

\* the first invocation of item_callback for the key
FirstCall(key) ==
    cb_calls[CHOOSE n \in DOMAIN cb_calls :
                /\ cb_calls[n].key = key
                /\ \A m \in 1..(n - 1) : cb_calls[m].key # key]

\* C11: with export_items enabled, over any sequence of item_callback
\* invocations, at most one record is ever appended to export_buffer per
\* item key (so at most one is buffered), each invoked key has its record
\* and the record is that of the first invocation for the key; with
\* export_items disabled no record is ever appended.
C11_ExportOncePerKey ==
    /\ export_items =>
          /\ \A i, j \in DOMAIN appended :
                appended[i].key = appended[j].key => i = j
          /\ \A i \in DOMAIN appended :
                /\ \E n \in DOMAIN cb_calls : cb_calls[n].key = appended[i].key
                /\ appended[i] = FirstCall(appended[i].key)
          /\ \A n \in DOMAIN cb_calls :
                \E i \in DOMAIN appended : appended[i].key = cb_calls[n].key
          /\ \A i \in DOMAIN export_buffer :
                \E j \in DOMAIN appended : appended[j] = export_buffer[i]
          /\ exported_keys = {cb_calls[n].key : n \in DOMAIN cb_calls}
    /\ ~export_items =>
          appended = <<>> /\ export_buffer = <<>> /\ exported_keys = {}

\* C11 witness: item_callback was invoked twice for one key with different
\* urls, a parse emptied the buffer in between, and one record was appended.
C11_Witness ==
    /\ export_items
    /\ Len(cb_calls) = 2 /\ cb_calls[1].key = cb_calls[2].key
    /\ cb_calls[1].url # cb_calls[2].url
    /\ Len(appended) = 1 /\ export_buffer = <<>>
    /\ \E g \in DOMAIN emitted : \E i \in DOMAIN emitted[g] :
          emitted[g][i].kind = "record"

\* how many times the record has been yielded by the parse generators
Emissions(rec) ==
    Cardinality({gi \in {<<g, i>> : g \in DOMAIN emitted, i \in 1..Len(appended) + 2} :
                    /\ gi[2] \in DOMAIN emitted[gi[1]]
                    /\ emitted[gi[1]][gi[2]] = Yielded("record", rec)})

\* the record is still to be yielded: it is in the buffer, or ahead of a
\* generator in the list the generator iterates
Pending(rec) ==
    \/ \E i \in DOMAIN export_buffer : export_buffer[i] = rec
    \/ \E g \in DOMAIN gens :
          /\ gens[g].pc = "flushing" /\ gens[g].list # 0
          /\ \E i \in gens[g].idx..Len(old_buffers[gens[g].list]) :
                old_buffers[gens[g].list][i] = rec

\* C18 (as claimed): with export_items enabled, whatever the order in which
\* the parse generators are started and resumed, a record appended to
\* export_buffer is never yielded twice, it has been yielded or is still to
\* be yielded (it is not dropped), and parse yields from the parent's parse
\* result only Requests.
C18_EmittedExactlyOnce ==
    export_items =>
       /\ \A i \in DOMAIN appended :
             /\ Emissions(appended[i]) <= 1
             /\ Emissions(appended[i]) = 1 \/ Pending(appended[i])
       /\ \A g \in DOMAIN emitted : \A i \in DOMAIN emitted[g] :
             emitted[g][i].kind # "item"

(* ------------- ExtractionGoal: evaluations that run concurrently ------ *)

\* the run-tagged responses concurrent evaluations are started on
TaggedKinds == {k \in DOMAIN ResponseKinds : ResponseKinds[k].run_id # None}

\* where an evaluation stands after a round of the loop, or before the first
AfterRound(items) == IF items = <<>> THEN "store" ELSE "test"

\* a worker starts get_reward on a new response (not in the cache, its meta
\* has a run_id): lines 34-41, score = self.request_reward and the list of
\* the extractor's pairs, none if the extractor raised
evaluate(k, out) ==
    /\ Len(workers) < MaxEvaluations
    /\ LET items == IF out.raised THEN <<>> ELSE out.items
       IN  workers' = Append(workers,
                [pc |-> AfterRound(items), page |-> Len(responses) + 1,
                 items |-> items, score |-> request_reward, credited |-> {}])
    /\ responses' = Append(responses, ResponseKinds[k])
    /\ extractor_calls' = Append(extractor_calls, 1)
    /\ UNCHANGED <<extracted_items, _cache, export_items, exported_keys,
                   export_buffer, first_reward, ret, crawl_vars, export_vars,
                   scores_vars, main_vars>>

\* the entry the round of worker w is about
FullKeyOf(w) ==
    full_key(responses[workers[w].page].run_id, Head(workers[w].items)[1])

\* line 44: `if full_key not in self.extracted_items`
test(w) ==
    /\ w \in DOMAIN workers /\ workers[w].pc = "test"
    /\ workers' = [workers EXCEPT
                     ![w].pc = IF FullKeyOf(w) \notin extracted_items
                               THEN "add" ELSE "callback"]
    /\ UNCHANGED <<goal_vars, crawl_vars, export_vars,
                   scores_vars, main_vars>>

\* line 45: self.extracted_items.add(full_key)
add(w) ==
    /\ w \in DOMAIN workers /\ workers[w].pc = "add"
    /\ extracted_items' = extracted_items \cup {FullKeyOf(w)}
    /\ workers' = [workers EXCEPT ![w].pc = "score"]
    /\ UNCHANGED <<responses, _cache, export_items, exported_keys,
                   export_buffer, extractor_calls, first_reward, ret,
                   crawl_vars, export_vars,
                   scores_vars, main_vars>>

\* line 46: score += self.item_reward
score(w) ==
    /\ w \in DOMAIN workers /\ workers[w].pc = "score"
    /\ workers' = [workers EXCEPT
                     ![w].pc = "callback",
                     ![w].score = @ + item_reward,
                     ![w].credited = @ \cup {Head(workers[w].items)[1]}]
    /\ UNCHANGED <<goal_vars, crawl_vars, export_vars,
                   scores_vars, main_vars>>

\* lines 47-48: self.item_callback(response.url, key, item), and on to the
\* next pair
callback(w) ==
    /\ w \in DOMAIN workers /\ workers[w].pc = "callback"
    /\ LET kv == Head(workers[w].items)
           sp == item_callback(SpiderState, responses[workers[w].page].url,
                               kv[1], kv[2])
       IN  /\ exported_keys' = sp.exported_keys
           /\ export_buffer' = sp.export_buffer
    /\ workers' = [workers EXCEPT
                     ![w].items = Tail(@),
                     ![w].pc = AfterRound(Tail(workers[w].items))]
    /\ UNCHANGED <<responses, extracted_items, _cache, export_items,
                   extractor_calls, first_reward, ret, crawl_vars,
                   export_vars, scores_vars, main_vars>>

\* lines 49-50: self._cache[response] = score; return score
store(w) ==
    /\ w \in DOMAIN workers /\ workers[w].pc = "store"
    /\ _cache' = _cache @@ (workers[w].page :> workers[w].score)
    /\ first_reward' = first_reward @@ (workers[w].page :> workers[w].score)
    /\ ret' = Ret(workers[w].page, "return", workers[w].score,
                  [NoExt EXCEPT !.invoked = TRUE], <<>>)
    /\ workers' = [workers EXCEPT ![w].pc = "done"]
    /\ UNCHANGED <<responses, extracted_items, export_items, exported_keys,
                   export_buffer, extractor_calls, crawl_vars, export_vars,
                   scores_vars, main_vars>>

WorkersInit ==
    /\ GoalInit
    /\ n_copies = MaxCopies
    /\ CrawlIdle
    /\ RestIdle

WorkersNext ==
    \/ \E k \in TaggedKinds : \E out \in ExtractorOutcomes : evaluate(k, out)
    \/ \E w \in DOMAIN workers :
          test(w) \/ add(w) \/ score(w) \/ callback(w) \/ store(w)

SpecWorkers == WorkersInit /\ [][WorkersNext]_vars

(* ------------------------- claims: concurrency ------------------------ *)

\* C12 (as claimed): when evaluations of get_reward on pages of one run are
\* run by concurrent workers, so that their membership tests and insertions
\* interleave, no key is credited to two pages of the run, and a key a page
\* has been credited for is in the ledger under the run.
C12_NoDoubleCredit ==
    /\ \A v, w \in DOMAIN workers :
          (v # w /\ responses[workers[v].page].run_id =
                    responses[workers[w].page].run_id) =>
             workers[v].credited \cap workers[w].credited = {}
    /\ \A w \in DOMAIN workers : \A key \in workers[w].credited :
          full_key(responses[workers[w].page].run_id, key) \in extracted_items

(* ------------------------------ MaxScores ----------------------------- *)

\* the keys update is called with, and a key it never is
ScoreKeys == {"foo", "bar"}
LookupKeys == ScoreKeys \cup {"unknown"}

ScoreValues == (0 - MaxScore)..MaxScore

\* the defaults a MaxScores is constructed with (default=0 unless given)
Defaults == {0 - 1, 0, 1}

max(a, b) == IF a >= b THEN a ELSE b

\* self.scores[key] on the defaultdict: a missing key gives default
DefaultDictGet(key) == IF key \in DOMAIN scores THEN scores[key] ELSE default

\* (a faulty variant of Updated: the value stored whatever the score held)
UpdatedOverwrites(key, value) ==
    [k \in DOMAIN scores \cup {key} |-> IF k = key THEN value ELSE scores[k]]

\* self.scores[key] = max(self.scores[key], value)
Updated(key, value) ==
    [k \in DOMAIN scores \cup {key} |->
        IF k = key THEN max(DefaultDictGet(key), value) ELSE scores[k]]

\* what a call returned: a number num / den
Got(op, key, num, den) == [op |-> op, key |-> key, num |-> num, den |-> den]

\* MaxScores.update(key, value)
update(key, value) ==
    /\ scores' = Updated(key, value)
    /\ best' = [k \in DOMAIN best \cup {key} |->
                  IF k # key THEN best[k]
                  ELSE IF key \in DOMAIN best THEN max(best[key], value)
                  ELSE value]
    /\ got' = Got("update", key, value, 1)
    /\ UNCHANGED <<default, goal_vars, crawl_vars, export_vars, workers,
                   main_vars>>

\* MaxScores.__getitem__(key)
getitem(key) ==
    /\ got' = Got("getitem", key,
                  IF key \notin DOMAIN scores THEN default ELSE scores[key], 1)
    /\ UNCHANGED <<default, scores, best, goal_vars, crawl_vars, export_vars,
                   workers, main_vars>>

RECURSIVE SumOver(_, _)
SumOver(f, keys) ==
    IF keys = {} THEN 0
    ELSE LET k == CHOOSE x \in keys : TRUE
         IN  f[k] + SumOver(f, keys \ {k})

\* MaxScores.sum(): sum(self.scores.values())
sum == SumOver(scores, DOMAIN scores)

\* MaxScores.__len__(): len(self.scores)
len == Cardinality(DOMAIN scores)

\* MaxScores.avg(): 0 when empty, else self.sum() / len(self)
avg == IF len = 0 THEN <<0, 1>> ELSE <<sum, len>>

\* a call of sum(), len() or avg()
call_sum ==
    /\ got' = Got("sum", None, sum, 1)
    /\ UNCHANGED <<default, scores, best, goal_vars, crawl_vars, export_vars,
                   workers, main_vars>>
call_len ==
    /\ got' = Got("len", None, len, 1)
    /\ UNCHANGED <<default, scores, best, goal_vars, crawl_vars, export_vars,
                   workers, main_vars>>
call_avg ==
    /\ got' = Got("avg", None, avg[1], avg[2])
    /\ UNCHANGED <<default, scores, best, goal_vars, crawl_vars, export_vars,
                   workers, main_vars>>

\* MaxScores.__init__(default)
ScoresInit ==
    /\ GoalInit /\ export_items = FALSE
    /\ n_copies = 1
    /\ CrawlIdle
    /\ ExportIdle
    /\ workers = <<>>
    /\ MainIdle
    /\ default \in Defaults
    /\ scores = <<>>
    /\ best = <<>>
    /\ got = [op |-> "init", key |-> None, num |-> 0, den |-> 1]

ScoresNext ==
    \/ \E key \in ScoreKeys : \E value \in ScoreValues : update(key, value)
    \/ \E key \in LookupKeys : getitem(key)
    \/ call_sum
    \/ call_len
    \/ call_avg

SpecScores == ScoresInit /\ [][ScoresNext]_vars

(* --------------------------- claims: MaxScores ------------------------ *)

\* what the calls return when the score of an updated key is Of(key)
ScoresAgree(Of(_)) ==
    /\ DOMAIN scores = DOMAIN best
    /\ got.op = "getitem" =>
          /\ got.key \in DOMAIN best => got.num = Of(got.key)
          /\ got.key \notin DOMAIN best =>
                got.num = default /\ got.key \notin DOMAIN scores
    /\ got.op = "len" => got.num = Cardinality(DOMAIN best)
    /\ got.op = "sum" =>
          got.num = SumOver([k \in DOMAIN best |-> Of(k)], DOMAIN best)
    /\ got.op = "avg" =>
          IF DOMAIN best = {} THEN got.num = 0
          ELSE got.num * Cardinality(DOMAIN best) =
                  got.den * SumOver([k \in DOMAIN best |-> Of(k)], DOMAIN best)

\* the largest value passed to update for the key
LargestPassed(key) == best[key]

\* the larger of default and the largest value passed to update for the key
LargestPassedOrDefault(key) == max(default, best[key])

\* C16 (as claimed): after any sequence of update calls, s[key] is the
\* maximum of the values passed to update for the key, s[k] for a key never
\* updated is the default and k is not added, len(s) is the number of
\* updated keys, sum() is the sum of the per-key maxima and avg() is
\* sum()/len(s), or 0 when empty.
C16_MaxOfValues ==
    ScoresAgree(LargestPassed)

\* C16 (amended): the same with s[key] the maximum of the default and the
\* values passed to update for the key.
C16_MaxOfValuesAndDefault ==
    ScoresAgree(LargestPassedOrDefault)

\* C16 witness: a key was updated only with values below the default, another
\* with values above it, and avg() has been called.
C16_Witness ==
    /\ got.op = "avg" /\ got.den = 2
    /\ \E k \in DOMAIN best : best[k] < default /\ scores[k] = default
    /\ \E k \in DOMAIN best : best[k] > default /\ scores[k] = best[k]

(* ----------------------------- profiles.main -------------------------- *)

\* the sites left after sorted(), --offset and --limit, by their position
Sites == 1..args.n_sites

\* where main stands
At(pc, i, todo) == [pc |-> pc, i |-> i, todo |-> todo]

\* the head of `for i, site in enumerate(sites, 1)`: the next site, or on to
\* the last loop, over processes.items()
For(i) ==
    IF i \in Sites THEN At("while", i, <<>>) ELSE At("final", i, processes)

\* (a faulty variant of AtCapacity: one process more than max_workers let in)
AtCapacityOffByOne == Len(processes) > args.max_workers

\* `len(processes) >= args.max_workers`
AtCapacity == Len(processes) >= args.max_workers

\* the dict without the key s
Del(dict, s) == SelectSeq(dict, LAMBDA k : k # s)

\* the test of `while len(processes) >= args.max_workers`: into the body,
\* `for s, p in list(processes.items())`, or on to the start of the process
while_test ==
    /\ main.pc = "while"
    /\ main' = IF AtCapacity THEN At("poll", main.i, processes)
               ELSE At("start", main.i, <<>>)
    /\ UNCHANGED <<args, processes, popen, started, waited>>
    /\ UNCHANGED <<goal_vars, crawl_vars, export_vars, workers, scores_vars>>

\* one round of the for loop of the while body: p.wait(timeout=2) returns
\* when the process has exited, and then del processes[s]; else it raises
\* TimeoutExpired, which is passed over
wait_timeout ==
    /\ main.pc = "poll"
    /\ IF main.todo = <<>>
       THEN /\ main' = At("while", main.i, <<>>)
            /\ UNCHANGED <<processes, waited>>
       ELSE LET s == Head(main.todo)
            IN  /\ main' = At("poll", main.i, Tail(main.todo))
                /\ IF popen[s] = "exited"
                   THEN /\ processes' = Del(processes, s)
                        /\ waited' = waited \cup {s}
                   ELSE UNCHANGED <<processes, waited>>
    /\ UNCHANGED <<args, popen, started>>
    /\ UNCHANGED <<goal_vars, crawl_vars, export_vars, workers, scores_vars>>

\* crawl_args(...) and, unless --dry-run, subprocess.Popen and
\* processes[site] = process. crawl_args raises AssertionError when the
\* site's directory exists and is not empty
start(root_not_empty) ==
    /\ main.pc = "start"
    /\ IF root_not_empty
       THEN /\ main' = At("raised", main.i, <<>>)
            /\ UNCHANGED <<processes, popen, started>>
       ELSE IF args.dry_run
       THEN /\ main' = For(main.i + 1)
            /\ UNCHANGED <<processes, popen, started>>
       ELSE /\ processes' = Append(processes, main.i)
            /\ popen' = popen @@ (main.i :> "running")
            /\ started' = Append(started, main.i)
            /\ main' = IF main.i + 1 \in Sites THEN At("while", main.i + 1, <<>>)
                       ELSE At("final", main.i + 1, Append(processes, main.i))
    /\ UNCHANGED <<args, waited>>
    /\ UNCHANGED <<goal_vars, crawl_vars, export_vars, workers, scores_vars>>

\* the last loop: p.wait() returns once the process has exited; after the
\* last process main returns
wait ==
    /\ main.pc = "final"
    /\ IF main.todo = <<>>
       THEN /\ main' = At("returned", main.i, <<>>)
            /\ UNCHANGED waited
       ELSE /\ popen[Head(main.todo)] = "exited"
            /\ waited' = waited \cup {Head(main.todo)}
            /\ main' = At("final", main.i, Tail(main.todo))
    /\ UNCHANGED <<args, processes, popen, started>>
    /\ UNCHANGED <<goal_vars, crawl_vars, export_vars, workers, scores_vars>>

\* a crawl subprocess exits
exit(s) ==
    /\ s \in DOMAIN popen /\ popen[s] = "running"
    /\ popen' = [popen EXCEPT ![s] = "exited"]
    /\ UNCHANGED <<args, main, processes, started, waited>>
    /\ UNCHANGED <<goal_vars, crawl_vars, export_vars, workers, scores_vars>>

\* main after parse_args and the selection of the sites, processes = {}
MainInit ==
    /\ GoalInit /\ export_items = FALSE
    /\ n_copies = 1
    /\ CrawlIdle
    /\ ExportIdle
    /\ workers = <<>>
    /\ ScoresIdle
    /\ args \in [max_workers : 1..MaxWorkers, dry_run : BOOLEAN,
                 n_sites : 0..MaxSites]
    /\ main = IF args.n_sites = 0 THEN At("final", 1, <<>>)
              ELSE At("while", 1, <<>>)
    /\ processes = <<>>
    /\ popen = <<>>
    /\ started = <<>>
    /\ waited = {}

MainNext ==
    \/ while_test
    \/ wait_timeout
    \/ \E root_not_empty \in BOOLEAN : start(root_not_empty)
    \/ wait
    \/ \E s \in DOMAIN popen : exit(s)

SpecMain == MainInit /\ [][MainNext]_vars

(* ------------------------- claims: profiles.main ---------------------- *)

\* the processes started and not yet observed as finished
Unobserved == {started[j] : j \in DOMAIN started} \ waited

\* C19 (as claimed): with max_workers >= 1 the processes started and not yet
\* observed as finished are never more than max_workers, the processes are
\* started in the order of the sites, and when main has returned a process
\* was started for every selected site and every started process has been
\* waited for.
C19_WorkerCap ==
    /\ Cardinality(Unobserved) <= args.max_workers
    /\ \A j \in DOMAIN started : started[j] = j
    /\ main.pc = "returned" =>
          /\ Len(started) = args.n_sites
          /\ Unobserved = {}

\* C19 (amended): the same, a process being started for every selected site
\* unless --dry-run is given, and then for none.
C19_WorkerCapUnlessDryRun ==
    /\ Cardinality(Unobserved) <= args.max_workers
    /\ \A j \in DOMAIN started : started[j] = j
    /\ args.dry_run => started = <<>>
    /\ main.pc = "returned" =>
          /\ ~args.dry_run => Len(started) = args.n_sites
          /\ Unobserved = {}
          /\ \A s \in DOMAIN popen : popen[s] = "exited"

\* C19 witness: main has returned from a run with more sites than workers:
\* a process was started for each site and all have been waited for.
C19_Witness ==
    /\ main.pc = "returned" /\ ~args.dry_run
    /\ args.n_sites > args.max_workers
    /\ Len(started) = args.n_sites
    /\ Cardinality(waited) = args.n_sites

====
